---- MODULE Spec2Model ----
(***************************************************************************)
(* The journal store of rusty-journal-clap (src/task.rs, driven by         *)
(* src/lib.rs): a JSON array of tasks in one file, rewritten as a whole by *)
(* add, remove and clear, and read by list.                                *)
(*                                                                         *)
(* The file content is a sequence of JSON tokens.  A task object is the    *)
(* tokens  {  name  state  tags  creted_at  }  where each field token      *)
(* carries the field's value; the array brackets and the commas between    *)
(* the array's elements are tokens of their own.                           *)
(***************************************************************************)
EXTENDS Integers, Sequences, FiniteSets, TLC

VARIABLES file, clock, last, procs

vars == <<file, clock, last, procs>>

\* Model bounds.
MaxTasks == 2
MaxClock == 1
MaxQuota == 1
BufTokens == 8

Min(a, b) == IF a < b THEN a ELSE b

(***************************************************************************)
(* Option<T>                                                               *)
(***************************************************************************)
None == [some |-> FALSE, v |-> <<>>]
Some(x) == [some |-> TRUE, v |-> x]
NoTag == [some |-> FALSE, v |-> ""]

(***************************************************************************)
(* Inputs handed over by the command line layer.                           *)
(***************************************************************************)
Names == {"a", "b"}
TagArgs == {None, Some(<<>>), Some(<<"xy", "X">>)}
TagFilters == {NoTag, Some("x"), Some("xy"), Some("X")}
Indexes == 0 .. (MaxTasks + 1)
States == {"Active", "Complete"}

(***************************************************************************)
(* Task::new                                                               *)
(***************************************************************************)
NewComplete(task_name, task_tags, now) ==
    [name |-> task_name, state |-> "Complete", tags |-> task_tags, creted_at |-> now]

NewEmptyTags(task_name, task_tags, now) ==
    [name |-> task_name, state |-> "Active",
     tags |-> IF task_tags.some THEN task_tags ELSE Some(<<>>), creted_at |-> now]

new(task_name, task_tags, now) ==
    [name |-> task_name, state |-> "Active", tags |-> task_tags, creted_at |-> now]

(***************************************************************************)
(* JSON tokens and the derived Serialize of Vec<Task>.                     *)
(***************************************************************************)
Tok(k, s, l, n) == [k |-> k, s |-> s, l |-> l, n |-> n]
LBRACK == Tok("[", "", <<>>, 0)
RBRACK == Tok("]", "", <<>>, 0)
LBRACE == Tok("{", "", <<>>, 0)
RBRACE == Tok("}", "", <<>>, 0)
COMMA == Tok(",", "", <<>>, 0)
NUL == Tok("nul", "", <<>>, 0)

SerializeTask(t) ==
    << LBRACE,
       Tok("name", t.name, <<>>, 0),
       Tok("state", t.state, <<>>, 0),
       IF t.tags.some THEN Tok("tags", "array", t.tags.v, 0)
                      ELSE Tok("tags", "null", <<>>, 0),
       Tok("creted_at", "", <<>>, t.creted_at),
       RBRACE >>

RECURSIVE SerializeElems(_)
SerializeElems(tasks) ==
    IF tasks = <<>> THEN <<>>
    ELSE IF Len(tasks) = 1 THEN SerializeTask(tasks[1])
    ELSE SerializeTask(tasks[1]) \o <<COMMA>> \o SerializeElems(Tail(tasks))

Serialize(tasks) == <<LBRACK>> \o SerializeElems(tasks) \o <<RBRACK>>

(***************************************************************************)
(* The derived Deserialize, as serde_json::from_reader runs it.  The       *)
(* result kind is "ok", "eof" (the input ended inside a value; the error's *)
(* is_eof() holds) or "bad" (a syntax or data error).                      *)
(***************************************************************************)
FieldKeys == {"name", "state", "tags", "creted_at"}
Required == {"name", "state", "creted_at"}

Keys(seen) == {seen[j].k : j \in 1 .. Len(seen)}
Field(seen, k) == seen[CHOOSE j \in 1 .. Len(seen) : seen[j].k = k]

BuildTask(seen) ==
    [name |-> Field(seen, "name").s,
     state |-> Field(seen, "state").s,
     tags |-> IF "tags" \in Keys(seen) /\ Field(seen, "tags").s = "array"
              THEN Some(Field(seen, "tags").l) ELSE None,
     creted_at |-> Field(seen, "creted_at").n]

NoTask == new("", None, 0)
PEof == [kind |-> "eof", task |-> NoTask, next |-> 0]
PBad == [kind |-> "bad", task |-> NoTask, next |-> 0]

RECURSIVE ParseFields(_, _, _)
ParseFields(b, i, seen) ==
    IF i > Len(b) THEN PEof
    ELSE IF b[i].k = "}" THEN
        IF Required \subseteq Keys(seen)
        THEN [kind |-> "ok", task |-> BuildTask(seen), next |-> i + 1]
        ELSE PBad
    ELSE IF b[i].k \in FieldKeys THEN
        IF b[i].k \in Keys(seen) THEN PBad
        ELSE IF b[i].k = "state" /\ b[i].s \notin States THEN PBad
        ELSE ParseFields(b, i + 1, Append(seen, b[i]))
    ELSE IF b[i].k = "other" THEN ParseFields(b, i + 1, seen)
    ELSE PBad

RECURSIVE ParseArray(_, _, _, _)
ParseArray(b, i, acc, st) ==
    IF i > Len(b) THEN [kind |-> "eof", tasks |-> <<>>]
    ELSE IF b[i].k = "]" /\ st \in {"first", "sep"} THEN
        IF i < Len(b) THEN [kind |-> "bad", tasks |-> <<>>]
        ELSE [kind |-> "ok", tasks |-> acc]
    ELSE IF b[i].k = "," /\ st = "sep" THEN ParseArray(b, i + 1, acc, "elem")
    ELSE IF b[i].k = "{" /\ st \in {"first", "elem"} THEN
        LET r == ParseFields(b, i + 1, <<>>) IN
        IF r.kind = "ok" THEN ParseArray(b, r.next, Append(acc, r.task), "sep")
        ELSE [kind |-> r.kind, tasks |-> <<>>]
    ELSE [kind |-> "bad", tasks |-> <<>>]

from_reader(b) ==
    IF b = <<>> THEN [kind |-> "eof", tasks |-> <<>>]
    ELSE IF b[1].k = "[" THEN ParseArray(b, 2, <<>>, "first")
    ELSE [kind |-> "bad", tasks |-> <<>>]

(***************************************************************************)
(* Task::_get_tasks: an end-of-input error of the decoder yields no tasks, *)
(* every other error is returned.  readFails is a failing read of the      *)
(* file, which the decoder reports as an I/O error.                        *)
(***************************************************************************)
_get_tasks(b, readFails) ==
    IF readFails THEN [res |-> "IoError", tasks |-> <<>>]
    ELSE LET r == from_reader(b) IN
         IF r.kind = "ok" THEN [res |-> "Ok", tasks |-> r.tasks]
         ELSE IF r.kind = "eof" THEN [res |-> "Ok", tasks |-> <<>>]
         ELSE [res |-> "InvalidData", tasks |-> <<>>]

(***************************************************************************)
(* The file: whether the path names a file, and the file's tokens.         *)
(***************************************************************************)
Absent == [exists |-> FALSE, bytes |-> <<>>]
OnDisk(b) == [exists |-> TRUE, bytes |-> b]

\* OpenOptions .write(true).create(true).read(true)
OpenCreate(f) == IF f.exists THEN f ELSE OnDisk(<<>>)

\* OpenOptions .truncate(true).write(true), on a file that exists
OpenKeep(f) == f

OpenTruncate(f) == OnDisk(<<>>)

(***************************************************************************)
(* A failing file step of one invocation: none, the first open, the read,  *)
(* the second open, or a device that takes only `room` more tokens.        *)
(***************************************************************************)
NoFault == [at |-> "none", room |-> 0]
ReadFaults == {NoFault} \cup {[at |-> a, room |-> 0] : a \in {"open", "read"}}
Quotas == (0 .. MaxQuota) \cup {BufTokens + MaxQuota}
Faults ==
    ReadFaults \cup {[at |-> "reopen", room |-> 0]}
               \cup {[at |-> "write", room |-> q] : q \in Quotas}

Room(flt) == IF flt.at = "write" THEN flt.room ELSE -1

(***************************************************************************)
(* BufWriter over the file.  flush_buf writes the buffered tokens to the   *)
(* file at the handle's position; on a device with no room left it writes  *)
(* what fits and fails, keeping the rest buffered.  room < 0: no limit.    *)
(***************************************************************************)
WriteAppend(bytes, off, chunk) == bytes \o chunk

WriteAt(bytes, off, chunk) ==
    LET n == IF Len(bytes) > off + Len(chunk) THEN Len(bytes) ELSE off + Len(chunk) IN
    [j \in 1 .. n |->
        IF j > off /\ j <= off + Len(chunk) THEN chunk[j - off]
        ELSE IF j <= Len(bytes) THEN bytes[j]
        ELSE NUL]

flush_buf(buf, disk, off, room) ==
    LET n == IF room < 0 THEN Len(buf) ELSE Min(Len(buf), room) IN
    [disk |-> IF n = 0 THEN disk ELSE WriteAt(disk, off, SubSeq(buf, 1, n)),
     off |-> off + n,
     buf |-> SubSeq(buf, n + 1, Len(buf)),
     room |-> IF room < 0 THEN room ELSE room - n,
     ok |-> n = Len(buf)]

(***************************************************************************)
(* Task::_write_tasks: serde_json::to_writer feeds the tokens to the       *)
(* BufWriter, which flushes when the next token does not fit; a failing    *)
(* flush is returned.  to_writer does not flush at the end: the writer is  *)
(* dropped, and the drop flushes what is buffered and ignores the outcome. *)
(***************************************************************************)
RECURSIVE to_writer(_, _, _, _, _, _)
to_writer(out, i, buf, disk, off, room) ==
    IF i > Len(out) THEN
        LET f == flush_buf(buf, disk, off, room) IN
        [bytes |-> f.disk, res |-> "Ok", failed |-> ~f.ok]
    ELSE IF Len(buf) + 1 > BufTokens THEN
        LET f == flush_buf(buf, disk, off, room) IN
        IF f.ok THEN to_writer(out, i + 1, <<out[i]>>, f.disk, f.off, f.room)
        ELSE [bytes |-> flush_buf(f.buf, f.disk, f.off, f.room).disk,
              res |-> "IoError", failed |-> TRUE]
    ELSE to_writer(out, i + 1, Append(buf, out[i]), disk, off, room)

_write_tasks(tasks, f, room) ==
    LET w == to_writer(Serialize(tasks), 1, <<>>, f.bytes, 0, room) IN
    [file |-> OnDisk(w.bytes), res |-> w.res, failed |-> w.failed]

(***************************************************************************)
(* Vec::remove (0-based; out of range panics), the index check of remove,  *)
(* and the tag test of list.                                               *)
(***************************************************************************)
VecRemoveNext(v, i) ==
    IF i + 1 \in 1 .. Len(v) - 1
    THEN [panic |-> FALSE, v |-> [j \in 1 .. Len(v) - 1 |-> IF j < i + 2 THEN v[j] ELSE v[j + 1]]]
    ELSE [panic |-> TRUE, v |-> v]

VecRemove(v, i) ==
    IF i + 1 \in 1 .. Len(v)
    THEN [panic |-> FALSE, v |-> [j \in 1 .. Len(v) - 1 |-> IF j < i + 1 THEN v[j] ELSE v[j + 1]]]
    ELSE [panic |-> TRUE, v |-> v]

OnlyZeroInvalid(index, len) == index = 0

InvalidIndex(index, len) == index = 0 \/ index > len

Contains(v, x) == \E j \in 1 .. Len(v) : v[j] = x

FirstTagOnly(task, tag) == task.tags.some /\ task.tags.v # <<>> /\ task.tags.v[1] = tag

HasTag(task, tag) == task.tags.some /\ Contains(task.tags.v, tag)

(***************************************************************************)
(* Display for Task: the name and the creation time to the minute.         *)
(***************************************************************************)
SecsPerMinute == 60
EmptyNotice == [kind |-> "empty", name |-> "", created |-> 0]
Render(task) ==
    [kind |-> "task", name |-> task.name, created |-> task.creted_at \div SecsPerMinute]

RECURSIVE Filter(_, _)
Filter(tasks, tag) ==
    IF tasks = <<>> THEN <<>>
    ELSE IF HasTag(tasks[1], tag) THEN <<tasks[1]>> \o Filter(Tail(tasks), tag)
    ELSE Filter(Tail(tasks), tag)

Lines(tasks) == [j \in 1 .. Len(tasks) |-> Render(tasks[j])]

(***************************************************************************)
(* The four operations, each from the file before to the file after, the   *)
(* returned result, the printed lines, and whether a file step failed.     *)
(***************************************************************************)
Ret(f, res, out, failed) == [file |-> f, res |-> res, out |-> out, failed |-> failed]

Persist(tasks, f, flt) ==
    IF flt.at = "reopen" THEN Ret(f, "IoError", <<>>, TRUE)
    ELSE IF ~f.exists THEN Ret(f, "NotFound", <<>>, TRUE)
    ELSE LET w == _write_tasks(tasks, OpenTruncate(f), Room(flt)) IN
         Ret(w.file, w.res, <<>>, w.failed)

add(f, name, tags, now, flt) ==
    IF flt.at = "open" THEN Ret(f, "IoError", <<>>, TRUE)
    ELSE LET f1 == OpenCreate(f)
             g == _get_tasks(f1.bytes, flt.at = "read") IN
         IF g.res # "Ok" THEN Ret(f1, g.res, <<>>, flt.at = "read")
         ELSE Persist(Append(g.tasks, new(name, tags, now)), f1, flt)

remove(f, index, flt) ==
    IF flt.at = "open" THEN Ret(f, "IoError", <<>>, TRUE)
    ELSE IF ~f.exists THEN Ret(f, "NotFound", <<>>, TRUE)
    ELSE LET g == _get_tasks(f.bytes, flt.at = "read") IN
         IF g.res # "Ok" THEN Ret(f, g.res, <<>>, flt.at = "read")
         ELSE IF InvalidIndex(index, Len(g.tasks)) THEN Ret(f, "InvalidInput", <<>>, FALSE)
         ELSE LET r == VecRemove(g.tasks, index - 1) IN
              IF r.panic THEN Ret(f, "Panic", <<>>, FALSE)
              ELSE Persist(r.v, f, flt)

list(f, tag, flt) ==
    IF flt.at = "open" THEN Ret(f, "IoError", <<>>, TRUE)
    ELSE LET f1 == OpenCreate(f)
             g == _get_tasks(f1.bytes, flt.at = "read") IN
         IF g.res # "Ok" THEN Ret(f1, g.res, <<>>, flt.at = "read")
         ELSE IF g.tasks = <<>> THEN Ret(f1, "Ok", <<EmptyNotice>>, FALSE)
         ELSE IF tag.some THEN Ret(f1, "Ok", Lines(Filter(g.tasks, tag.v)), FALSE)
         ELSE Ret(f1, "Ok", Lines(g.tasks), FALSE)

clear(f, flt) ==
    IF flt.at = "open" THEN Ret(f, "IoError", <<>>, TRUE)
    ELSE LET f1 == OpenCreate(f)
             g == _get_tasks(f1.bytes, flt.at = "read") IN
         IF g.res # "Ok" THEN Ret(f1, g.res, <<>>, flt.at = "read")
         ELSE Persist(<<>>, f1, flt)

(***************************************************************************)
(* Journal files found at the path when the program starts: none, an empty *)
(* one, journals of earlier runs, journals cut short, and other content.   *)
(***************************************************************************)
T0 == [name |-> "a", state |-> "Active", tags |-> Some(<<"x">>), creted_at |-> 0]
T1 == [name |-> "b", state |-> "Complete", tags |-> None, creted_at |-> 0]
Other == Tok("other", "notes", <<>>, 0)

Prefixes(b) == {SubSeq(b, 1, n) : n \in 1 .. Len(b) - 1}

CutShort == Prefixes(Serialize(<<T0, T1>>))

Foreign ==
    { <<LBRACK, LBRACE, Tok("creted_at", "", <<>>, 0), Other, Tok("state", "Complete", <<>>, 0),
        Tok("name", "b", <<>>, 0), RBRACE, RBRACK>> }

Malformed ==
    { SerializeTask(T0),
      <<LBRACK, Tok("num", "", <<>>, 1), RBRACK>>,
      Serialize(<<T0>>) \o <<RBRACK>>,
      <<LBRACK>> \o SerializeTask(T0) \o <<COMMA, RBRACK>>,
      <<LBRACK, LBRACE, Tok("name", "a", <<>>, 0), Tok("state", "Done", <<>>, 0),
        Tok("tags", "null", <<>>, 0), Tok("creted_at", "", <<>>, 0), RBRACE, RBRACK>>,
      <<LBRACK, LBRACE, Tok("state", "Active", <<>>, 0), Tok("creted_at", "", <<>>, 0),
        RBRACE, RBRACK>>,
      <<NUL, NUL>> }

InitFiles ==
    {Absent, OnDisk(<<>>), OnDisk(Serialize(<<T0>>)), OnDisk(Serialize(<<T0, T1>>))}
        \cup {OnDisk(b) : b \in CutShort \cup Foreign \cup Malformed}

(***************************************************************************)
(* One invocation at a time (lib.rs run): `last` is the invocation that    *)
(* ran last, with its arguments, the file it found and what it returned.   *)
(***************************************************************************)
NoOp ==
    [op |-> "none", name |-> "", tags |-> None, index |-> 0, filter |-> NoTag,
     now |-> 0, fault |-> "none", pre |-> Absent, res |-> "Ok", out |-> <<>>,
     failed |-> FALSE]

Idle == <<>>

Init ==
    /\ file \in InitFiles
    /\ clock = 0
    /\ last = NoOp
    /\ procs = Idle

InitFresh ==
    /\ file = Absent
    /\ clock = 0
    /\ last = NoOp
    /\ procs = Idle

Loaded(f) == _get_tasks(f.bytes, FALSE).tasks

Done(op, r, flt) ==
    /\ file' = r.file
    /\ last' = [op EXCEPT !.fault = flt.at, !.pre = file, !.res = r.res, !.out = r.out,
                          !.failed = r.failed]
    /\ procs' = procs

AddOp(flt, names, tagArgs) ==
    /\ Len(Loaded(file)) < MaxTasks
    /\ \E name \in names, tags \in tagArgs, dt \in 0 .. 1 :
        /\ clock + dt <= MaxClock
        /\ clock' = clock + dt
        /\ Done([NoOp EXCEPT !.op = "add", !.name = name, !.tags = tags, !.now = clock + dt],
                add(file, name, tags, clock + dt, flt), flt)

RemoveOp(flt) ==
    \E index \in Indexes :
        /\ clock' = clock
        /\ Done([NoOp EXCEPT !.op = "remove", !.index = index], remove(file, index, flt), flt)

ListOp(flt, filters) ==
    \E tag \in filters :
        /\ clock' = clock
        /\ Done([NoOp EXCEPT !.op = "list", !.filter = tag], list(file, tag, flt), flt)

ClearOp(flt) ==
    /\ clock' = clock
    /\ Done([NoOp EXCEPT !.op = "clear"], clear(file, flt), flt)

Add == AddOp(NoFault, Names, TagArgs)
Remove == RemoveOp(NoFault)
List == ListOp(NoFault, TagFilters)
Clear == ClearOp(NoFault)

Next == Add \/ Remove \/ List \/ Clear

Spec == Init /\ [][Next]_vars

AddIO == \E flt \in Faults : AddOp(flt, {"a"}, {None, Some(<<"x">>)})
RemoveIO == \E flt \in Faults : RemoveOp(flt)
ListIO == \E flt \in ReadFaults : ListOp(flt, {NoTag, Some("x")})
ClearIO == \E flt \in Faults : ClearOp(flt)

NextIO == AddIO \/ RemoveIO \/ ListIO \/ ClearIO

SpecIO == InitFresh /\ [][NextIO]_vars

(***************************************************************************)
(* Two invocations on the same path at once, each a process of its own     *)
(* with its own file handles.  A process takes the file steps of its       *)
(* operation one at a time: the first open, the load, the truncating open  *)
(* (position 0) and the flushes of its BufWriter, each at the position its *)
(* own handle has reached.  Nothing is locked.                             *)
(***************************************************************************)
Procs == {1, 2}

Invocation(op, name, tags, index) ==
    [pc |-> "open", op |-> op, name |-> name, tags |-> tags, index |-> index,
     res |-> "Running", tasks |-> <<>>, out |-> <<>>, sent |-> 0, off |-> 0]

Invocations ==
    { Invocation("add", "a", None, 0),
      Invocation("add", "b", Some(<<"xy", "X">>), 0),
      Invocation("remove", "", None, 1),
      Invocation("clear", "", None, 0) }

RaceFiles == {Absent, OnDisk(Serialize(<<T0>>)), OnDisk(Serialize(<<T0, T1>>))}

InitRace ==
    /\ file \in RaceFiles
    /\ clock = 0
    /\ last = NoOp
    /\ procs \in [Procs -> Invocations]

Finish(p, res) == procs' = [procs EXCEPT ![p].pc = "done", ![p].res = res]

OpenFirst(p) ==
    /\ procs[p].pc = "open"
    /\ UNCHANGED <<clock, last>>
    /\ IF procs[p].op = "remove"
       THEN /\ file' = file
            /\ IF file.exists THEN procs' = [procs EXCEPT ![p].pc = "load"]
               ELSE Finish(p, "NotFound")
       ELSE /\ file' = OpenCreate(file)
            /\ procs' = [procs EXCEPT ![p].pc = "load"]

Load(p) ==
    /\ procs[p].pc = "load"
    /\ UNCHANGED <<file, clock, last>>
    /\ LET g == _get_tasks(file.bytes, FALSE)
           me == procs[p] IN
       IF g.res # "Ok" THEN Finish(p, g.res)
       ELSE IF me.op = "add" THEN
            /\ Len(g.tasks) < MaxTasks
            /\ procs' = [procs EXCEPT ![p].pc = "reopen",
                            ![p].tasks = Append(g.tasks, new(me.name, me.tags, clock))]
       ELSE IF me.op = "clear" THEN
            procs' = [procs EXCEPT ![p].pc = "reopen", ![p].tasks = <<>>]
       ELSE IF InvalidIndex(me.index, Len(g.tasks)) THEN Finish(p, "InvalidInput")
       ELSE LET r == VecRemove(g.tasks, me.index - 1) IN
            IF r.panic THEN Finish(p, "Panic")
            ELSE procs' = [procs EXCEPT ![p].pc = "reopen", ![p].tasks = r.v]

Reopen(p) ==
    /\ procs[p].pc = "reopen"
    /\ UNCHANGED <<clock, last>>
    /\ IF file.exists
       THEN /\ file' = OpenTruncate(file)
            /\ procs' = [procs EXCEPT ![p].pc = "write",
                                      ![p].out = Serialize(procs[p].tasks),
                                      ![p].sent = 0, ![p].off = 0]
       ELSE /\ file' = file
            /\ Finish(p, "NotFound")

Flush(p) ==
    /\ procs[p].pc = "write"
    /\ UNCHANGED <<clock, last>>
    /\ LET me == procs[p]
           n == Min(BufTokens, Len(me.out) - me.sent)
           f == flush_buf(SubSeq(me.out, me.sent + 1, me.sent + n), file.bytes, me.off, -1) IN
       /\ file' = OnDisk(f.disk)
       /\ procs' = [procs EXCEPT ![p].sent = me.sent + n, ![p].off = f.off,
                                 ![p].pc = IF me.sent + n = Len(me.out) THEN "done" ELSE "write",
                                 ![p].res = IF me.sent + n = Len(me.out) THEN "Ok" ELSE "Running"]

NextRace == \E p \in Procs : OpenFirst(p) \/ Load(p) \/ Reopen(p) \/ Flush(p)

SpecRace == InitRace /\ [][NextRace]_vars

(***************************************************************************)
(* Properties of one invocation at a time.                                 *)
(***************************************************************************)
IsJournal(f) == f.exists /\ from_reader(f.bytes).kind = "ok"
NoJournalYet(f) == ~f.exists \/ f.bytes = <<>>
TasksOf(f) == IF IsJournal(f) THEN from_reader(f.bytes).tasks ELSE <<>>
WellFormed(f) == NoJournalYet(f) \/ IsJournal(f)
Persists(op) == op \in {"add", "remove", "clear"}

\* C1: remove(path, i) with 1 <= i <= N on a journal of N tasks succeeds and leaves
\* the N-1 other tasks, unchanged and in their order.
C1_RemoveDeletesThatTask ==
    (last.op = "remove" /\ IsJournal(last.pre) /\ last.index \in 1 .. Len(TasksOf(last.pre)))
        => /\ last.res = "Ok"
           /\ IsJournal(file)
           /\ Len(TasksOf(file)) = Len(TasksOf(last.pre)) - 1
           /\ \A j \in 1 .. Len(TasksOf(file)) :
                TasksOf(file)[j] = IF j < last.index THEN TasksOf(last.pre)[j]
                                   ELSE TasksOf(last.pre)[j + 1]

C1_Witness ==
    /\ last.op = "remove" /\ last.res = "Ok" /\ last.index = 1
    /\ Len(TasksOf(last.pre)) = 2
    /\ TasksOf(last.pre)[1] # TasksOf(last.pre)[2]
    /\ TasksOf(file) = <<TasksOf(last.pre)[2]>>

\* C2: remove(path, 0) and remove(path, i) with i > N on an existing journal file of
\* N >= 0 tasks return the invalid-index error and leave the file as it was.
C2_InvalidIndexLeavesFile ==
    (/\ last.op = "remove" /\ last.pre.exists /\ WellFormed(last.pre)
     /\ (last.index = 0 \/ last.index > Len(TasksOf(last.pre))))
        => last.res = "InvalidInput" /\ file = last.pre

C2_Witness ==
    /\ last.op = "remove" /\ IsJournal(last.pre)
    /\ Len(TasksOf(last.pre)) >= 1
    /\ last.index = Len(TasksOf(last.pre)) + 1
    /\ last.res = "InvalidInput"

\* C3: add on a journal of N tasks (an absent or empty file included) succeeds and
\* leaves the N tasks followed by one Active task with the given name and tags.
C3_AddAppends ==
    (last.op = "add" /\ WellFormed(last.pre))
        => /\ last.res = "Ok"
           /\ IsJournal(file)
           /\ Len(TasksOf(file)) = Len(TasksOf(last.pre)) + 1
           /\ SubSeq(TasksOf(file), 1, Len(TasksOf(last.pre))) = TasksOf(last.pre)
           /\ LET t == TasksOf(file)[Len(TasksOf(file))] IN
                t.name = last.name /\ t.tags = last.tags /\ t.state = "Active"

C3_Witness ==
    /\ last.op = "add" /\ last.res = "Ok" /\ ~last.tags.some
    /\ Len(TasksOf(last.pre)) >= 1
    /\ TasksOf(last.pre)[1].name = last.name
    /\ Len(TasksOf(file)) = Len(TasksOf(last.pre)) + 1

\* C4: list with a tag filter prints one line for exactly the tasks one of whose
\* tags equals the filter, in journal order; without a filter one line per task;
\* for a journal of no tasks the empty-list notice alone.
Tagged(tasks, tag) ==
    {j \in 1 .. Len(tasks) : tasks[j].tags.some
                             /\ tag \in {tasks[j].tags.v[n] : n \in 1 .. Len(tasks[j].tags.v)}}
Nth(S, n) == CHOOSE j \in S : Cardinality({i \in S : i <= j}) = n

C4_ListExactFilter ==
    (last.op = "list" /\ WellFormed(last.pre))
        => LET old == TasksOf(last.pre)
               sel == Tagged(old, last.filter.v) IN
           /\ last.res = "Ok"
           /\ old = <<>> => last.out = <<EmptyNotice>>
           /\ (old # <<>> /\ ~last.filter.some) =>
                /\ Len(last.out) = Len(old)
                /\ \A j \in 1 .. Len(old) : last.out[j] = Render(old[j])
           /\ (old # <<>> /\ last.filter.some) =>
                /\ Len(last.out) = Cardinality(sel)
                /\ \A n \in 1 .. Cardinality(sel) : last.out[n] = Render(old[Nth(sel, n)])

C4_Witness ==
    /\ last.op = "list" /\ last.filter = Some("X")
    /\ Len(TasksOf(last.pre)) = 2
    /\ TasksOf(last.pre)[1].tags = Some(<<"x">>)
    /\ TasksOf(last.pre)[2].tags = Some(<<"xy", "X">>)
    /\ last.out = <<Render(TasksOf(last.pre)[2])>>

\* C5: on a path with no file or a zero-byte file every operation sees an empty
\* journal and creates the file: add succeeds, list prints the empty notice, clear
\* succeeds, remove fails with the invalid-index error.
C5_MissingFileIsEmptyJournal ==
    (last.op # "none" /\ NoJournalYet(last.pre))
        => /\ file.exists
           /\ last.op \in {"add", "clear"} => last.res = "Ok"
           /\ last.op = "list" => last.res = "Ok" /\ last.out = <<EmptyNotice>>
           /\ last.op = "remove" => last.res = "InvalidInput"

\* C6: a non-empty file that is not one complete JSON array of tasks (a cut-short
\* array included) makes every operation fail at the load and keeps its content.
C6_BrokenFileIsAnError ==
    (last.op # "none" /\ last.pre.exists /\ last.pre.bytes # <<>> /\ ~IsJournal(last.pre))
        => last.res \notin {"Ok", "InvalidInput"} /\ file = last.pre

\* C10: a task added without tags is stored with the empty sequence as its tags.
StoredTags(f) == f.bytes[Len(f.bytes) - 3]

C7_FailedStepIsReported == last.failed => last.res # "Ok"

\* C9: after any sequence of invocations the file is absent, empty or one complete
\* JSON array of tasks.
C9_FileAlwaysComplete == WellFormed(file)

\* C9 as amended: the file is absent or an initial part of one complete JSON array
\* of tasks (the whole array or nothing included); it is cut short only by an
\* invocation one of whose writes failed, and stays so until the next write.
C9_FileCompleteUnlessWriteFailed ==
    /\ [](~file.exists \/ from_reader(file.bytes).kind \in {"ok", "eof"})
    /\ [][(WellFormed(file) /\ ~last'.failed) => WellFormed(file')]_vars
    /\ [][(Persists(last'.op) /\ last'.res = "Ok" /\ ~last'.failed) => IsJournal(file')]_vars

C9_Witness ==
    /\ last.op = "add" /\ last.res = "IoError" /\ last.fault = "write"
    /\ IsJournal(last.pre) /\ Len(TasksOf(last.pre)) = 1
    /\ file.bytes # <<>>
    /\ from_reader(file.bytes).kind = "eof"

(***************************************************************************)
(* Properties of two invocations racing on the path.                       *)
(***************************************************************************)
BothPersisted == \A p \in Procs : procs[p].pc = "done" /\ procs[p].res = "Ok"
OneWrite(p) == Len(procs[p].out) <= BufTokens
TailFrom(b, n) == SubSeq(b, n + 1, Len(b))

\* C8: once two racing invocations that persist have finished, the file holds the
\* complete serialization written by one of them, never a mixture of both.
C8_LastWriterWins ==
    BothPersisted => \E p \in Procs : file.bytes = procs[p].out

\* C8 as amended: once both have finished, every position of the file holds what
\* one of the two serializations has at that position, or a zero byte in a gap
\* that a truncation by the other left before a later write; and when each
\* serialization goes out in a single write, the file is one complete
\* serialization, followed by the tail of the other one when that one is longer.
C8_PositionwiseMixture ==
    BothPersisted =>
        /\ \A j \in 1 .. Len(file.bytes) :
              \/ file.bytes[j] = NUL
              \/ \E p \in Procs : j <= Len(procs[p].out) /\ file.bytes[j] = procs[p].out[j]
        /\ \E p \in Procs : Len(file.bytes) = Len(procs[p].out)
        /\ (\A p \in Procs : OneWrite(p)) =>
              \E p, q \in Procs :
                 \/ file.bytes = procs[p].out
                 \/ file.bytes = procs[p].out \o TailFrom(procs[q].out, Len(procs[p].out))

C8_Witness ==
    /\ BothPersisted
    /\ \A p \in Procs : OneWrite(p) /\ file.bytes # procs[p].out
    /\ file.bytes = procs[1].out \o TailFrom(procs[2].out, Len(procs[1].out))

====
